---- MODULE Spec2Model ----
(***************************************************************************)
(* Case aggregate of the legal case-management backend: the case           *)
(* controller (createCase, updateCase, deleteCase, getCase, getCases,      *)
(* addClientToCase), the Joi request schemas, the Case schema with its     *)
(* post-save / post-findOneAndUpdate hearing hooks, and the role guard of  *)
(* the case routes.                                                        *)
(*                                                                         *)
(* JavaScript values are encoded uniformly so that every comparison is     *)
(* between values of one kind:                                             *)
(*   - a user id, a case number, a title or a status is a string, and the  *)
(*     strings "undefined" and "null" stand for the two JS non-values;     *)
(*   - a date is a positive integer, NoDate (0) is undefined and NullDate  *)
(*     (-1) is an explicit JSON null;                                      *)
(*   - a value whose SHAPE matters (parties, its two sides, lawyers,       *)
(*     clients) is a record [t |-> shape, v |-> elements], where t is one  *)
(*     of "undefined", "null", "scalar", "object", "array" and v is the    *)
(*     sequence of elements when t = "array" (<<>> otherwise).             *)
(***************************************************************************)
EXTENDS Integers, Sequences, FiniteSets, TLC

VARIABLES cases, events, nextId, last, documents, pending, prev

\* cases, events, documents: the three collections of the store;
\* nextId: the next case id; last: the response to the last request;
\* pending: the requests that have read the store and not yet written;
\* prev: the response before last (a history of one request).
vars == <<cases, events, nextId, last, documents, pending, prev>>

\* what the handlers of the case controller never write
aside == <<documents, pending, prev>>

(***************************************************************************)
(* Bounds of the model.                                                    *)
(***************************************************************************)
MaxCases == 2

\* the number of requests that can be in flight at once
MaxRequests == 2

Undefined == "undefined"
Null == "null"
NoDate == 0
NullDate == 0 - 1

Users == {"L1", "L2", "K1", "A1"}

\* User.role
Role(u) ==
  CASE u \in {"L1", "L2"} -> "lawyer"
    [] u = "K1" -> "client"
    [] OTHER -> "admin"

CaseNumbers == {"CN1", "CN2"}
Dates == {1, 2}

\* Array.isArray(x)
IsArray(x) == x.t = "array"

Arr(s) == [t |-> "array", v |-> s]
Shape(s) == [t |-> s, v |-> <<>>]
Undef == Shape(Undefined)

\* JS truthiness of a shaped value: undefined and null are falsy, a scalar
\* is truthy here (the falsy scalars 0 and "" behave as null does below),
\* objects and arrays (also empty ones) are truthy.
Truthy(x) == x.t \notin {Undefined, Null}

(***************************************************************************)
(* Request payloads (req.body).  A lawyers[] entry carries user, isPrimary,*)
(* role and addedBy (its required name is always present); a clients[]     *)
(* entry carries name and, when the caller sends them, the keys user and   *)
(* isPrimary ("undefined" when the key is absent); a parties entry carries *)
(* its name.                                                               *)
(***************************************************************************)
LawyerEntries ==
  [user : {"L1", "L2"}, isPrimary : BOOLEAN, role : {Undefined},
   addedBy : {Undefined, "A1"}]

ClientEntries ==
  [name : {"c"}, user : {Undefined, "K1"}, isPrimary : {Undefined, "true"}]

PartyEntries == [name : {"", "P"}]

SeqsUpTo2(S) == {<<>>} \cup {<<a>> : a \in S} \cup {<<a, b>> : a \in S, b \in S}
SeqsUpTo1(S) == {<<>>} \cup {<<a>> : a \in S}

LawyersInputs == {Undef} \cup {Arr(s) : s \in SeqsUpTo2(LawyerEntries)}
ClientsInputs == {Undef} \cup {Arr(s) : s \in SeqsUpTo1(ClientEntries)}

SideInputs ==
  {Undef, Shape(Null), Shape("scalar"), Shape("object")}
    \cup {Arr(s) : s \in SeqsUpTo1(PartyEntries)}

\* parties as sent: a non-object shape, or an object with its two sides
PartiesInputs ==
  {[t |-> sh, petitioner |-> Undef, respondent |-> Undef] :
      sh \in {Undefined, Null, "scalar", "array"}}
    \cup [t : {"object"}, petitioner : SideInputs,
          respondent : {Undef, Shape(Null), Arr(<<[name |-> "P"]>>)}]
    \cup [t : {"object"}, petitioner : {Undef, Arr(<<[name |-> "P"]>>)},
          respondent : SideInputs]

NoParties == [t |-> Undefined, petitioner |-> Undef, respondent |-> Undef]

BasePayload ==
  [title |-> "t", caseNumber |-> "CN1", status |-> "active",
   nextHearingDate |-> 1, lawyer |-> Undefined, client |-> Undefined,
   lawyers |-> Undef, clients |-> Undef, parties |-> NoParties]

(***************************************************************************)
(* Joi schemas.                                                            *)
(***************************************************************************)
\* parties: Joi.object({petitioner: Joi.array().items({name: required...}),
\*                      respondent: ...}).optional()
\* Joi.string() does not accept the empty string, so a name of "" fails.
sideSchemaValid(side) ==
  /\ side.t \in {Undefined, "array"}
  /\ \A i \in 1..Len(side.v) : side.v[i].name \notin {Undefined, ""}

partiesSchemaValid(parties) ==
  /\ parties.t \in {Undefined, "object"}
  /\ parties.t = "object" =>
       sideSchemaValid(parties.petitioner) /\ sideSchemaValid(parties.respondent)

\* clients: Joi.array().items(Joi.object({name, email, contact, address}));
\* the keys user and isPrimary are not part of the item schema.
clientsSchemaValid(clients) ==
  /\ clients.t \in {Undefined, "array"}
  /\ \A i \in 1..Len(clients.v) :
       /\ clients.v[i].name \notin {Undefined, ""}
       /\ clients.v[i].user = Undefined
       /\ clients.v[i].isPrimary = Undefined

\* createCaseSchema: title, caseNumber, caseType (folded into title here),
\* status and nextHearingDate are required; lawyers is an optional array.
createCaseSchemaValid(body) ==
  /\ body.title # Undefined
  /\ body.caseNumber # Undefined
  /\ body.status \in {"active", "closed"}
  /\ body.nextHearingDate \in Dates
  /\ body.lawyers.t \in {Undefined, "array"}
  /\ clientsSchemaValid(body.clients)
  /\ partiesSchemaValid(body.parties)

\* updateCaseSchema: every key optional, nextHearingDate may be null, and
\* there is no lawyers key, so .unknown(false) rejects a body that has one.
updateCaseSchemaValid(body) ==
  /\ body.status \in {Undefined, "active", "closed"}
  /\ body.nextHearingDate \in Dates \cup {NoDate, NullDate}
  /\ body.lawyers.t = Undefined
  /\ clientsSchemaValid(body.clients)
  /\ partiesSchemaValid(body.parties)

(***************************************************************************)
(* Case schema (models/case.model.js).                                     *)
(***************************************************************************)
\* lawyers: [{ user, name, ..., role (default 'associate'), isPrimary
\* (default false), addedBy (required), addedAt }]
castLawyers(list) ==
  [i \in 1..Len(list) |->
     [user |-> list[i].user,
      isPrimary |-> list[i].isPrimary,
      role |-> IF list[i].role = Undefined THEN "associate" ELSE list[i].role,
      addedBy |-> list[i].addedBy]]

\* clients: [{ name, email, contact, address }]: the schema is strict, so a
\* key it does not declare (user, isPrimary, addedBy, addedAt) is not stored.
castClients(list) == [i \in 1..Len(list) |-> [name |-> list[i].name]]

\* Document validation on save: lawyers[].addedBy is required.
caseSchemaValid(caseData) ==
  \A i \in 1..Len(caseData.lawyers) : caseData.lawyers[i].addedBy # Undefined

\* The stored document.  creator is not a path of the schema (strict), so
\* it is not stored; documents and events start empty.
castCase(id, caseData) ==
  [id |-> id,
   caseNumber |-> caseData.caseNumber,
   status |-> caseData.status,
   nextHearingDate |-> caseData.nextHearingDate,
   lawyer |-> caseData.lawyer,
   client |-> caseData.client,
   lawyers |-> castLawyers(caseData.lawyers),
   clients |-> castClients(caseData.clients),
   parties |-> caseData.parties,
   documents |-> <<>>,
   events |-> <<>>]

\* Event ids are allocated in order of creation.
newEventId(evs) == Cardinality(evs) + 1

\* new Event({... start, end: start + 1h, type: 'hearing', case: doc._id,
\*             createdBy: doc.creator || doc.lawyer || doc.client,
\*             status: 'scheduled'})
hearingEvent(evs, doc, start) ==
  [id |-> newEventId(evs), type |-> "hearing", case |-> doc.id,
   start |-> start, end |-> start + 1, status |-> "scheduled",
   createdBy |-> IF doc.lawyer \notin {Undefined, Null} THEN doc.lawyer
                 ELSE doc.client]

\* $push: { events: id } on the case with the given id
pushEvent(cs, caseId, eventId) ==
  {IF c.id = caseId THEN [c EXCEPT !.events = Append(@, eventId)] ELSE c :
     c \in cs}

\* CaseSchema.post("save"): if (doc.nextHearingDate && this.isNew) create the
\* hearing event and push it onto the case.  The result is the pair of
\* stores after the hook.
CasePostSave(doc, isNew, cs, evs) ==
  IF doc.nextHearingDate \notin {NoDate, NullDate} /\ isNew
  THEN LET ev == hearingEvent(evs, doc, doc.nextHearingDate)
       IN  [cases |-> pushEvent(cs, doc.id, ev.id), events |-> evs \cup {ev}]
  ELSE [cases |-> cs, events |-> evs]

\* The value of this.isNew when a post("save") hook runs: Mongoose resets
\* the flag when it issues the insert, before the post hooks are called.
isNewInPostSave == FALSE

(***************************************************************************)
(* createCase (case controller).                                           *)
(***************************************************************************)
\* Array.isArray(x) ? x : []
arrayOrEmpty(x) == IF IsArray(x) THEN x ELSE Arr(<<>>)

\* the sides stored as they were sent, without the Array.isArray coercion
caseDataPartiesAsSent(parties) ==
  [petitioner |-> parties.petitioner, respondent |-> parties.respondent]

\* const { parties = {} } = req.body;
\* parties: { petitioner: Array.isArray(parties.petitioner) ? ... : [],
\*            respondent: Array.isArray(parties.respondent) ? ... : [] }
caseDataParties(parties) ==
  [petitioner |-> arrayOrEmpty(parties.petitioner),
   respondent |-> arrayOrEmpty(parties.respondent)]

lawyerFlagged(e) == e.isPrimary
clientFlagged(e) == e.isPrimary = "true"

\* lawyers.find(lawyer => lawyer.isPrimary): the index of the first flagged
\* entry, or 0
findPrimaryLawyer(list) ==
  IF \E i \in 1..Len(list) : lawyerFlagged(list[i])
  THEN CHOOSE i \in 1..Len(list) :
         lawyerFlagged(list[i]) /\ \A j \in 1..(i - 1) : ~lawyerFlagged(list[j])
  ELSE 0

\* clients.find(client => client.isPrimary): the index of the first flagged
\* entry, or 0
findPrimaryClient(list) ==
  IF \E i \in 1..Len(list) : clientFlagged(list[i])
  THEN CHOOSE i \in 1..Len(list) :
         clientFlagged(list[i]) /\ \A j \in 1..(i - 1) : ~clientFlagged(list[j])
  ELSE 0

\* the lawyers entry synthesized for a creating lawyer
selfLawyer(u) ==
  [user |-> u, isPrimary |-> TRUE, role |-> "lead", addedBy |-> u]

\* the clients entry synthesized for a creating client
selfClient(u) == [name |-> u, user |-> u, isPrimary |-> "true"]

\* Role-specific assignment of the creator and of the primaries, then the
\* two "ensure at least one primary" blocks that run for every role.
caseDataAssign(u, body) ==
  LET lawyers0 == arrayOrEmpty(body.lawyers).v
      clients0 == arrayOrEmpty(body.clients).v
      pl == findPrimaryLawyer(lawyers0)
      pc == findPrimaryClient(clients0)
      asLawyer == Role(u) = "lawyer"
      asClient == Role(u) = "client"
      lawyers1 ==
        IF asLawyer /\ Len(lawyers0) = 0 THEN <<selfLawyer(u)>>
        ELSE IF asLawyer /\ pl = 0
             THEN [lawyers0 EXCEPT ![1].isPrimary = TRUE]
             ELSE lawyers0
      lawyer1 ==
        IF asLawyer
        THEN IF Len(lawyers0) = 0 THEN u
             ELSE IF pl # 0 THEN lawyers0[pl].user ELSE lawyers0[1].user
        ELSE body.lawyer
      clients1 ==
        IF asClient /\ Len(clients0) = 0 THEN <<selfClient(u)>>
        ELSE IF asClient /\ pc = 0
             THEN [clients0 EXCEPT ![1].isPrimary = "true"]
             ELSE clients0
      client1 ==
        IF asClient
        THEN IF Len(clients0) = 0 THEN u
             ELSE IF pc # 0 THEN clients0[pc].user ELSE clients0[1].user
        ELSE body.client
      lawyers2 ==
        IF Len(lawyers1) > 0 /\ findPrimaryLawyer(lawyers1) = 0
        THEN [lawyers1 EXCEPT ![1].isPrimary = TRUE] ELSE lawyers1
      clients2 ==
        IF Len(clients1) > 0 /\ findPrimaryClient(clients1) = 0
        THEN [clients1 EXCEPT ![1].isPrimary = "true"] ELSE clients1
  IN  [lawyer |-> lawyer1, lawyers |-> lawyers2,
       client |-> client1, clients |-> clients2]

\* caseData as handed to Case.create
createCaseData(u, body) ==
  LET a == caseDataAssign(u, body)
  IN  [caseNumber |-> body.caseNumber, status |-> body.status,
       nextHearingDate |-> body.nextHearingDate,
       lawyer |-> a.lawyer, lawyers |-> a.lawyers,
       client |-> a.client, clients |-> a.clients,
       parties |-> caseDataParties(body.parties)]

\* the lookup of an existing case by caseNumber left out
caseNumberNeverTaken(cs, cn) == FALSE

\* Case.findOne({ caseNumber }) finds a case
caseNumberTaken(cs, cn) == \E c \in cs : c.caseNumber = cn

\* The response recorded for the last request: the handler, the caller,
\* the case id named (or created), the HTTP status, the body sent and, for
\* getCases, the ids of the cases returned.
Response(op, u, id, status, body, list) ==
  [op |-> op, user |-> u, id |-> id, status |-> status, req |-> body,
   list |-> list]

\* exports.createCase.  notifyOk is the outcome of the notification fan-out
\* (Notification.create, sendgridMailer, twilio) that follows Case.create:
\* when a step throws, the catch block answers with the error (500).
createCase(u, body, notifyOk) ==
  LET caseData == createCaseData(u, body)
      doc == castCase(nextId, caseData)
      hooked == CasePostSave(doc, isNewInPostSave, cases \cup {doc}, events)
  IN
  IF ~createCaseSchemaValid(body)
  THEN /\ last' = Response("createCase", u, 0, 400, body, {})
       /\ UNCHANGED <<cases, events, nextId>>
  ELSE IF caseNumberTaken(cases, caseData.caseNumber)
  THEN /\ last' = Response("createCase", u, 0, 409, body, {})
       /\ UNCHANGED <<cases, events, nextId>>
  ELSE IF ~caseSchemaValid(caseData)
  THEN /\ last' = Response("createCase", u, 0, 500, body, {})
       /\ UNCHANGED <<cases, events, nextId>>
  ELSE /\ nextId <= MaxCases
       /\ cases' = hooked.cases
       /\ events' = hooked.events
       /\ nextId' = nextId + 1
       /\ last' = Response("createCase", u, nextId,
                           IF notifyOk THEN 201 ELSE 500, body, {})

(***************************************************************************)
(* updateCase (case controller) and the post("findOneAndUpdate") hook.     *)
(***************************************************************************)
\* x is undefined or null (a falsy reference)
Unset(x) == x \in {Undefined, Null}

\* p.name || ""
nameOrEmpty(n) == IF n = Undefined THEN "" ELSE n

\* req.body.parties.<side> after
\*   if (!Array.isArray(side)) side = [];  side = side.map(p => ({name: p.name || "", ...}))
patchSide(side) ==
  LET a == arrayOrEmpty(side).v
  IN  Arr([i \in 1..Len(a) |-> [name |-> nameOrEmpty(a[i].name)]])

\* The in-place patch of req.body.parties that precedes validation.  It is
\* skipped for a falsy parties; on an object or an array it sets both sides.
patchParties(parties) ==
  IF Truthy(parties)
  THEN [parties EXCEPT !.petitioner = patchSide(@), !.respondent = patchSide(@)]
  ELSE parties

\* On a truthy scalar the two assignments have no effect and
\* req.body.parties.petitioner.map is a call on undefined: a TypeError.
patchPartiesThrows(parties) == parties.t = "scalar"

\* (caseToUpdate.lawyer && lawyer == user) || (caseToUpdate.client && ...)
\* || (role === 'lawyer' && !caseToUpdate.lawyer)
\* || (role === 'client' && !caseToUpdate.client)
mayUpdate(u, c) ==
  \/ ~Unset(c.lawyer) /\ c.lawyer = u
  \/ ~Unset(c.client) /\ c.client = u
  \/ Role(u) = "lawyer" /\ Unset(c.lawyer)
  \/ Role(u) = "client" /\ Unset(c.client)

\* Handle parties robustly: the sent parties when truthy, else the stored
\* ones, each side coerced to an array.
newParties(parties, existingParties) ==
  IF Truthy(parties)
  THEN [petitioner |-> arrayOrEmpty(parties.petitioner),
        respondent |-> arrayOrEmpty(parties.respondent)]
  ELSE [petitioner |-> arrayOrEmpty(existingParties.petitioner),
        respondent |-> arrayOrEmpty(existingParties.respondent)]

\* updatePayload: otherUpdateData, then lawyers/lawyer and clients/client
\* when the arrays are sent (!== undefined), then parties.  A key whose
\* value is "undefined" (NoDate, Undef) is a key with the value undefined.
updatePayload(body, caseToUpdate) ==
  LET hasLawyers == body.lawyers.t # Undefined
      hasClients == body.clients.t # Undefined
      lawyers0 == arrayOrEmpty(body.lawyers).v
      clients0 == arrayOrEmpty(body.clients).v
      lawyers1 ==
        IF Len(lawyers0) > 0 /\ findPrimaryLawyer(lawyers0) = 0
        THEN [lawyers0 EXCEPT ![1].isPrimary = TRUE] ELSE lawyers0
      clients1 ==
        IF Len(clients0) > 0 /\ findPrimaryClient(clients0) = 0
        THEN [clients0 EXCEPT ![1].isPrimary = "true"] ELSE clients0
  IN  [caseNumber |-> body.caseNumber,
       status |-> body.status,
       nextHearingDate |-> body.nextHearingDate,
       lawyer |-> IF hasLawyers /\ Len(lawyers1) > 0
                  THEN lawyers1[findPrimaryLawyer(lawyers1)].user
                  ELSE body.lawyer,
       lawyers |-> IF hasLawyers THEN Arr(lawyers1) ELSE Undef,
       client |-> IF hasClients /\ Len(clients1) > 0
                  THEN clients1[findPrimaryClient(clients1)].user
                  ELSE body.client,
       clients |-> IF hasClients THEN Arr(clients1) ELSE Undef,
       parties |-> newParties(body.parties, caseToUpdate.parties)]

\* runValidators on the update: lawyers[].addedBy is required.
updateSchemaValid(upd) ==
  \A i \in 1..Len(upd.lawyers.v) : upd.lawyers.v[i].addedBy # Undefined

\* The unique index on caseNumber rejects the write (E11000).
duplicateKey(cs, id, upd) ==
  /\ upd.caseNumber # Undefined
  /\ \E c \in cs : c.id # id /\ c.caseNumber = upd.caseNumber

\* The update as the query holds it once it has run: Mongoose casts the
\* plain update object into { $set: { ... } } before it is sent.
castUpdate(upd) == [k \in {"$set"} |-> upd]

\* a hook that reads the date from $set and creates the hearing event of
\* the case without pushing it onto the case's events[]
CasePostFindOneAndUpdateNoPush(doc, _update, cs, evs) ==
  LET d == _update["$set"].nextHearingDate
  IN  IF d \in {NoDate, NullDate} THEN [cases |-> cs, events |-> evs]
      ELSE [cases |-> cs, events |-> evs \cup {hearingEvent(evs, doc, d)}]

\* an update that appends to lawyers[] and clients[] instead of replacing them
applyUpdateAppending(c, upd) ==
  [c EXCEPT
     !.caseNumber = IF upd.caseNumber = Undefined THEN @ ELSE upd.caseNumber,
     !.status = IF upd.status = Undefined THEN @ ELSE upd.status,
     !.nextHearingDate =
        IF upd.nextHearingDate = NoDate THEN @ ELSE upd.nextHearingDate,
     !.lawyer = IF upd.lawyer = Undefined THEN @ ELSE upd.lawyer,
     !.client = IF upd.client = Undefined THEN @ ELSE upd.client,
     !.lawyers = IF upd.lawyers.t = Undefined THEN @
                 ELSE @ \o castLawyers(upd.lawyers.v),
     !.clients = IF upd.clients.t = Undefined THEN @
                 ELSE @ \o castClients(upd.clients.v),
     !.parties = upd.parties]

\* Case.findByIdAndUpdate(caseId, updatePayload): keys whose value is
\* undefined are dropped from the update, the others are $set.
applyUpdate(c, upd) ==
  [c EXCEPT
     !.caseNumber = IF upd.caseNumber = Undefined THEN @ ELSE upd.caseNumber,
     !.status = IF upd.status = Undefined THEN @ ELSE upd.status,
     !.nextHearingDate =
        IF upd.nextHearingDate = NoDate THEN @ ELSE upd.nextHearingDate,
     !.lawyer = IF upd.lawyer = Undefined THEN @ ELSE upd.lawyer,
     !.client = IF upd.client = Undefined THEN @ ELSE upd.client,
     !.lawyers = IF upd.lawyers.t = Undefined THEN @
                 ELSE castLawyers(upd.lawyers.v),
     !.clients = IF upd.clients.t = Undefined THEN @
                 ELSE castClients(upd.clients.v),
     !.parties = upd.parties]

\* this._update.nextHearingDate: a top-level key of the update object
updateNextHearingDate(_update) ==
  IF "nextHearingDate" \in DOMAIN _update THEN _update.nextHearingDate
  ELSE NoDate

\* Event.findOne({ case, type: 'hearing', status: 'scheduled' })
scheduledHearings(evs, caseId) ==
  {e \in evs : e.case = caseId /\ e.type = "hearing" /\ e.status = "scheduled"}

\* a hook that synchronizes on every update, whatever the update holds: it
\* moves the scheduled hearing event of the case to the stored date, or
\* creates one
CasePostFindOneAndUpdateAlways(doc, _update, cs, evs) ==
  LET found == scheduledHearings(evs, doc.id)
  IN  IF found # {}
      THEN [cases |-> cs,
            events |-> (evs \ found)
                         \cup {[e EXCEPT !.start = doc.nextHearingDate,
                                         !.end = doc.nextHearingDate + 1] :
                                 e \in found}]
      ELSE LET ev == hearingEvent(evs, doc, doc.nextHearingDate)
           IN  [cases |-> pushEvent(cs, doc.id, ev.id), events |-> evs \cup {ev}]

\* CaseSchema.post("findOneAndUpdate"): when this._update.nextHearingDate is
\* truthy, move the scheduled hearing event of the case if there is one,
\* else create one and push it onto the case.
CasePostFindOneAndUpdate(doc, _update, cs, evs) ==
  LET d == updateNextHearingDate(_update)
      found == scheduledHearings(evs, doc.id)
  IN
  IF d \in {NoDate, NullDate} THEN [cases |-> cs, events |-> evs]
  ELSE IF found # {}
  THEN LET existingEvent == CHOOSE e \in found : \A f \in found : e.id <= f.id
       IN  [cases |-> cs,
            events |-> (evs \ {existingEvent})
                         \cup {[existingEvent EXCEPT !.start = d, !.end = d + 1]}]
  ELSE LET ev == hearingEvent(evs, doc, d)
       IN  [cases |-> pushEvent(cs, doc.id, ev.id), events |-> evs \cup {ev}]

\* an updateCase that writes the case before it checks the caller
updateCaseWriteBeforeAuth(u, id, body) ==
  LET body1 == [body EXCEPT !.parties = patchParties(@)]
      found == {c \in cases : c.id = id}
  IN
  IF patchPartiesThrows(body.parties) \/ ~updateCaseSchemaValid(body1)
  THEN /\ last' = Response("updateCase", u, id, 400, body, {})
       /\ UNCHANGED <<cases, events, nextId>>
  ELSE IF found = {}
  THEN /\ last' = Response("updateCase", u, id, 404, body, {})
       /\ UNCHANGED <<cases, events, nextId>>
  ELSE LET caseToUpdate == CHOOSE c \in found : TRUE
           upd == updatePayload(body1, caseToUpdate)
       IN  /\ cases' = (cases \ {caseToUpdate})
                          \cup {applyUpdate(caseToUpdate, upd)}
           /\ last' = Response("updateCase", u, id,
                               IF mayUpdate(u, caseToUpdate) THEN 200 ELSE 403,
                               body, {})
           /\ UNCHANGED <<events, nextId>>

\* exports.updateCase
updateCase(u, id, body) ==
  LET body1 == [body EXCEPT !.parties = patchParties(@)]
      found == {c \in cases : c.id = id}
  IN
  IF patchPartiesThrows(body.parties)
  THEN /\ last' = Response("updateCase", u, id, 500, body, {})
       /\ UNCHANGED <<cases, events, nextId>>
  ELSE IF ~updateCaseSchemaValid(body1)
  THEN /\ last' = Response("updateCase", u, id, 400, body, {})
       /\ UNCHANGED <<cases, events, nextId>>
  ELSE IF found = {}
  THEN /\ last' = Response("updateCase", u, id, 404, body, {})
       /\ UNCHANGED <<cases, events, nextId>>
  ELSE LET caseToUpdate == CHOOSE c \in found : TRUE
           upd == updatePayload(body1, caseToUpdate)
           updatedCase == applyUpdate(caseToUpdate, upd)
           hooked == CasePostFindOneAndUpdate(updatedCase, castUpdate(upd),
                       (cases \ {caseToUpdate}) \cup {updatedCase}, events)
       IN
       IF ~mayUpdate(u, caseToUpdate)
       THEN /\ last' = Response("updateCase", u, id, 403, body, {})
            /\ UNCHANGED <<cases, events, nextId>>
       ELSE IF ~updateSchemaValid(upd) \/ duplicateKey(cases, id, upd)
       THEN /\ last' = Response("updateCase", u, id, 500, body, {})
            /\ UNCHANGED <<cases, events, nextId>>
       ELSE /\ cases' = hooked.cases
            /\ events' = hooked.events
            /\ last' = Response("updateCase", u, id, 200, body, {})
            /\ UNCHANGED nextId

(***************************************************************************)
(* getCase, getCases, deleteCase, addClientToCase (case controller) and    *)
(* the role guard of the case routes.                                      *)
(***************************************************************************)
NoBody == [BasePayload EXCEPT !.title = Undefined, !.caseNumber = Undefined,
                              !.status = Undefined, !.nextHearingDate = NoDate]

\* the membership check of getCase left out
mayReadAnyone(u, c) == TRUE

\* caseLawyerIdStr === userIdStr || caseClientIdStr === userIdStr
mayRead(u, c) ==
  \/ ~Unset(c.lawyer) /\ c.lawyer = u
  \/ ~Unset(c.client) /\ c.client = u

\* exports.getCase
getCase(u, id) ==
  LET found == {c \in cases : c.id = id}
  IN  /\ last' = Response("getCase", u, id,
                   IF found = {} THEN 404
                   ELSE IF mayRead(u, CHOOSE c \in found : TRUE) THEN 200
                   ELSE 403,
                   NoBody, {})
      /\ UNCHANGED <<cases, events, nextId>>

\* userAccessFilter: { $or: [{ creator }, { lawyer }, { client }] }, the same
\* for every role.  No stored case has a creator (castCase), so that
\* disjunct matches nothing.
userAccessFilter(u, c) == c.lawyer = u \/ c.client = u

\* additionalFilters: the status query parameter, when given
additionalFilters(status, c) == status = Undefined \/ c.status = status

\* exports.getCases: the ids of the cases matching the filter (the first
\* page holds them all: limit defaults to 10).
getCases(u, status) ==
  /\ last' = Response("getCases", u, 0, 200,
               [NoBody EXCEPT !.status = status],
               {c.id : c \in {d \in cases :
                   userAccessFilter(u, d) /\ additionalFilters(status, d)}})
  /\ UNCHANGED <<cases, events, nextId>>

\* (caseToDelete.lawyer && lawyer == user) || (caseToDelete.client && ...)
mayDelete(u, c) ==
  \/ ~Unset(c.lawyer) /\ c.lawyer = u
  \/ ~Unset(c.client) /\ c.client = u

\* membership checked before the case is known to exist
deleteCaseAuthFirst(op, u, id) ==
  LET found == {c \in cases : c.id = id}
  IN
  IF \A c \in found : ~mayDelete(u, c)
  THEN /\ last' = Response(op, u, id, 403, NoBody, {})
       /\ UNCHANGED <<cases, events, nextId>>
  ELSE /\ cases' = cases \ found
       /\ last' = Response(op, u, id, 200, NoBody, {})
       /\ UNCHANGED <<events, nextId>>

\* exports.deleteCase: the handler returns right after caseToDelete.deleteOne();
\* the Document.deleteMany that follows the if/else is never reached.
\* op names the entry point: the handler itself, or the route in front of it.
deleteCaseAs(op, u, id) ==
  LET found == {c \in cases : c.id = id}
  IN
  IF found = {}
  THEN /\ last' = Response(op, u, id, 404, NoBody, {})
       /\ UNCHANGED <<cases, events, nextId>>
  ELSE IF mayDelete(u, CHOOSE c \in found : TRUE)
  THEN /\ cases' = cases \ found
       /\ last' = Response(op, u, id, 200, NoBody, {})
       /\ UNCHANGED <<events, nextId>>
  ELSE /\ last' = Response(op, u, id, 403, NoBody, {})
       /\ UNCHANGED <<cases, events, nextId>>

deleteCase(u, id) == deleteCaseAs("deleteCase", u, id)

\* authorize(...roles): roles.includes(req.user.role)
authorize(roles, u) == Role(u) \in roles

\* router.delete('/:id', authorize('admin'), caseController.deleteCase)
routeDeleteCase(u, id) ==
  IF authorize({"admin"}, u)
  THEN deleteCaseAs("routeDeleteCase", u, id)
  ELSE /\ last' = Response("routeDeleteCase", u, id, 403, NoBody, {})
       /\ UNCHANGED <<cases, events, nextId>>

\* exports.addClientToCase: caseItem.client = clientId; await caseItem.save()
\* (the document is not new, so the post("save") hook has isNew = false)
addClientToCase(u, id, clientId) ==
  LET found == {c \in cases : c.id = id}
      body == [NoBody EXCEPT !.client = clientId]
  IN
  IF found = {}
  THEN /\ last' = Response("addClientToCase", u, id, 404, body, {})
       /\ UNCHANGED <<cases, events, nextId>>
  ELSE LET caseItem == CHOOSE c \in found : TRUE
           saved == [caseItem EXCEPT !.client = clientId]
           hooked == CasePostSave(saved, FALSE,
                       (cases \ {caseItem}) \cup {saved}, events)
       IN
       IF Role(u) = "lawyer" /\ ~Unset(caseItem.lawyer) /\ caseItem.lawyer # u
       THEN /\ last' = Response("addClientToCase", u, id, 403, body, {})
            /\ UNCHANGED <<cases, events, nextId>>
       ELSE /\ cases' = hooked.cases
            /\ events' = hooked.events
            /\ last' = Response("addClientToCase", u, id, 200, body, {})
            /\ UNCHANGED nextId

(***************************************************************************)
(* The requests the model sends.  Each specification below exercises the   *)
(* same handlers on the request bodies of one concern.                     *)
(***************************************************************************)
CaseIds == 1..MaxCases

\* the users that send requests; L2 is a lawyer that is only referred to
Callers == {"L1", "K1", "A1"}

lw(u, primary, addedBy) ==
  [user |-> u, isPrimary |-> primary, role |-> Undefined, addedBy |-> addedBy]

cl(u, primary) == [name |-> "c", user |-> u, isPrimary |-> primary]

NoResponse == Response("none", Undefined, 0, 0, NoBody, {})

\* the request slots, and the slot that holds no request
Slots == 1..MaxRequests
Idle == [pc |-> "idle"]

Init ==
  /\ cases = {}
  /\ events = {}
  /\ documents = {}
  /\ nextId = 1
  /\ last = NoResponse
  /\ prev = NoResponse
  /\ pending = [s \in Slots |-> Idle]

CreateCase(bodies, outcomes) ==
  /\ \E u \in Callers, body \in bodies, notifyOk \in outcomes :
       createCase(u, body, notifyOk)
  /\ UNCHANGED aside
UpdateCase(bodies) ==
  /\ \E u \in Callers, id \in CaseIds, body \in bodies : updateCase(u, id, body)
  /\ UNCHANGED aside
GetCase ==
  /\ \E u \in Callers, id \in CaseIds : getCase(u, id)
  /\ UNCHANGED aside
GetCases ==
  /\ \E u \in Callers, st \in {Undefined, "closed"} : getCases(u, st)
  /\ UNCHANGED aside
DeleteCase ==
  /\ \E u \in Callers, id \in CaseIds : deleteCase(u, id)
  /\ UNCHANGED aside
RouteDeleteCase ==
  /\ \E u \in Callers, id \in CaseIds : routeDeleteCase(u, id)
  /\ UNCHANGED aside
AddClientToCase ==
  /\ \E u \in Callers, id \in CaseIds : addClientToCase(u, id, "K1")
  /\ UNCHANGED aside

(***************************************************************************)
(* Assignment of lawyers and clients.                                      *)
(***************************************************************************)
AssignCreateBodies ==
  {BasePayload,
   [BasePayload EXCEPT !.caseNumber = "CN2",
      !.lawyers = Arr(<<lw("L2", TRUE, "A1"), lw("L1", FALSE, "A1")>>)],
   [BasePayload EXCEPT !.caseNumber = "CN2",
      !.lawyers = Arr(<<lw("L1", FALSE, "A1"), lw("L2", FALSE, "A1")>>)],
   [BasePayload EXCEPT
      !.lawyers = Arr(<<lw("L1", TRUE, "A1"), lw("L2", TRUE, "A1")>>)],
   [BasePayload EXCEPT !.lawyers = Arr(<<lw("L1", TRUE, Undefined)>>)],
   [BasePayload EXCEPT !.caseNumber = "CN2",
      !.clients = Arr(<<cl(Undefined, Undefined)>>)],
   [BasePayload EXCEPT !.clients = Arr(<<cl("K1", "true")>>)]}

AssignUpdateBodies ==
  {[NoBody EXCEPT !.lawyer = "L2"],
   [NoBody EXCEPT !.lawyers = Arr(<<lw("L1", TRUE, "A1")>>)],
   [NoBody EXCEPT !.clients = Arr(<<cl(Undefined, Undefined)>>)],
   [NoBody EXCEPT !.clients = Arr(<<cl("K1", "true")>>)]}

NextAssign ==
  \/ CreateCase(AssignCreateBodies, {TRUE})
  \/ UpdateCase(AssignUpdateBodies)
  \/ AddClientToCase

SpecAssign == Init /\ [][NextAssign]_vars

(***************************************************************************)
(* Shapes of parties.                                                      *)
(***************************************************************************)
PartiesCreateBodies ==
  {[BasePayload EXCEPT !.caseNumber = cn, !.parties = pa] :
      cn \in CaseNumbers, pa \in PartiesInputs}

PartiesUpdateBodies == {[NoBody EXCEPT !.parties = pa] : pa \in PartiesInputs}

NextParties ==
  \/ /\ \E body \in PartiesCreateBodies : createCase("L1", body, TRUE)
     /\ UNCHANGED aside
  \/ /\ \E id \in CaseIds, body \in PartiesUpdateBodies : updateCase("L1", id, body)
     /\ UNCHANGED aside

SpecParties == Init /\ [][NextParties]_vars

(***************************************************************************)
(* Access to cases.                                                        *)
(***************************************************************************)
AccessCreateBodies ==
  {BasePayload,
   [BasePayload EXCEPT !.caseNumber = "CN2", !.status = "closed"],
   [BasePayload EXCEPT !.title = Undefined],
   [BasePayload EXCEPT !.lawyer = "K1", !.client = "L2"],
   [BasePayload EXCEPT !.caseNumber = "CN2",
      !.lawyers = Arr(<<lw("L2", TRUE, "A1"), lw("L1", FALSE, "A1")>>)]}

AccessUpdateBodies ==
  {NoBody,
   [NoBody EXCEPT !.lawyer = Null]}

NextAccess ==
  \/ CreateCase(AccessCreateBodies, {TRUE})
  \/ UpdateCase(AccessUpdateBodies)
  \/ GetCase
  \/ GetCases
  \/ DeleteCase
  \/ RouteDeleteCase

SpecAccess == Init /\ [][NextAccess]_vars

(***************************************************************************)
(* Hearing date and hearing events.                                        *)
(***************************************************************************)
HearingCreateBodies ==
  {[BasePayload EXCEPT !.caseNumber = cn, !.nextHearingDate = d] :
      cn \in CaseNumbers, d \in Dates \cup {NoDate}}

HearingUpdateBodies ==
  {[NoBody EXCEPT !.nextHearingDate = d] : d \in Dates \cup {NoDate, NullDate}}

NextHearing ==
  \/ CreateCase(HearingCreateBodies, BOOLEAN)
  \/ UpdateCase(HearingUpdateBodies)

SpecHearing == Init /\ [][NextHearing]_vars

\* Mongoose awaits the post hooks of a write before the write resolves, so
\* the synchronizer is no step of its own: it has run when the handler
\* answers.  A request that arrives is handled.
FairHearing == SpecHearing /\ WF_vars(NextHearing)

(***************************************************************************)
(* Events: the event controller (createEvent, updateEvent, getEvents) and  *)
(* the hooks of the Event schema.                                          *)
(***************************************************************************)
\* req.body.case / req.query.caseId not given
NoCase == 0

\* the body of an event request with no key set
NoEventBody ==
  [title |-> Undefined, start |-> NoDate, end |-> NoDate, type |-> Undefined,
   location |-> Undefined, case |-> NoCase]

\* EventSchema validators on save: location is required for a hearing or a
\* court visit, case is required unless the event is a client meeting.
eventSchemaValid(ev, location) ==
  /\ ev.type \in {"hearing", "court_visit"} => location # Undefined
  /\ ev.type # "client_meeting" => ev.case # NoCase

\* EventSchema.pre("save"): if (this.end <= this.start) throw
eventPreSaveThrows(ev) == ev.end <= ev.start

\* EventSchema.post("save"): a hearing event with a case sets that case's
\* nextHearingDate to its start (Case.updateOne, which runs no Case hook).
EventPostSave(doc, cs) ==
  IF doc.type = "hearing" /\ doc.case # NoCase
  THEN {IF c.id = doc.case THEN [c EXCEPT !.nextHearingDate = doc.start] ELSE c :
          c \in cs}
  ELSE cs

\* the permission checks of createEvent on the case the event is added to:
\* caseItem.client.toString() / caseItem.lawyer.toString() throw a TypeError
\* when the case has no such reference
addEventThrows(u, c) ==
  \/ Role(u) = "client" /\ Unset(c.client)
  \/ Role(u) = "lawyer" /\ Unset(c.lawyer)

mayAddEvent(u, c) ==
  /\ Role(u) = "client" => c.client = u
  /\ Role(u) = "lawyer" => c.lawyer = u

\* exports.createEvent
createEvent(u, body) ==
  LET found == {c \in cases : c.id = body.case}
      checked == body.case # NoCase /\ body.type # "client_meeting"
      newEvent ==
        [id |-> newEventId(events),
         type |-> IF body.type = Undefined THEN "hearing" ELSE body.type,
         case |-> body.case, start |-> body.start, end |-> body.end,
         status |-> "scheduled", createdBy |-> u]
      hooked == EventPostSave(newEvent, cases)
      pushed == IF body.case # NoCase
                THEN pushEvent(hooked, body.case, newEvent.id) ELSE hooked
      answer(status) == Response("createEvent", u, 0, status, body, {})
  IN
  IF body.title = Undefined \/ body.start = NoDate \/ body.end = NoDate
  THEN /\ last' = answer(400)
       /\ UNCHANGED <<cases, events, nextId>>
  ELSE IF checked /\ found = {}
  THEN /\ last' = answer(404)
       /\ UNCHANGED <<cases, events, nextId>>
  ELSE IF checked /\ addEventThrows(u, CHOOSE c \in found : TRUE)
  THEN /\ last' = answer(500)
       /\ UNCHANGED <<cases, events, nextId>>
  ELSE IF checked /\ ~mayAddEvent(u, CHOOSE c \in found : TRUE)
  THEN /\ last' = answer(403)
       /\ UNCHANGED <<cases, events, nextId>>
  ELSE IF ~eventSchemaValid(newEvent, body.location) \/ eventPreSaveThrows(newEvent)
  THEN /\ last' = answer(500)
       /\ UNCHANGED <<cases, events, nextId>>
  ELSE /\ events' = events \cup {newEvent}
       /\ cases' = pushed
       /\ last' = Response("createEvent", u, newEvent.id, 201, body, {})
       /\ UNCHANGED nextId

\* the permission checks of updateEvent
updateEventThrows(u, ev) ==
  /\ Role(u) = "lawyer" /\ ev.case # NoCase
  /\ \E c \in cases : c.id = ev.case /\ Unset(c.lawyer)

mayUpdateEvent(u, ev) ==
  CASE Role(u) = "client" -> ev.createdBy = u
    [] Role(u) = "lawyer" ->
         IF ev.case # NoCase
         THEN \E c \in cases : c.id = ev.case /\ c.lawyer = u
         ELSE ev.createdBy = u
    [] OTHER -> TRUE

\* Event.findByIdAndUpdate(eventId, {...req.body}, {new, runValidators}):
\* the keys sent replace the stored values; no save hook runs.
applyEventUpdate(ev, body) ==
  [ev EXCEPT !.start = IF body.start = NoDate THEN @ ELSE body.start,
             !.end = IF body.end = NoDate THEN @ ELSE body.end]

\* exports.updateEvent
updateEvent(u, id, body) ==
  LET found == {e \in events : e.id = id}
      answer(status) == Response("updateEvent", u, id, status, body, {})
  IN
  IF found = {}
  THEN /\ last' = answer(404)
       /\ UNCHANGED <<cases, events, nextId>>
  ELSE LET event == CHOOSE e \in found : TRUE
       IN
       IF updateEventThrows(u, event)
       THEN /\ last' = answer(500)
            /\ UNCHANGED <<cases, events, nextId>>
       ELSE IF ~mayUpdateEvent(u, event)
       THEN /\ last' = answer(403)
            /\ UNCHANGED <<cases, events, nextId>>
       ELSE /\ events' = (events \ found) \cup {applyEventUpdate(event, body)}
            /\ last' = answer(200)
            /\ UNCHANGED <<cases, nextId>>

\* the permission checks of deleteEvent: the same tests as in updateEvent
deleteEventThrows(u, ev) == updateEventThrows(u, ev)

mayDeleteEvent(u, ev) == mayUpdateEvent(u, ev)

\* exports.deleteEvent: Event.findByIdAndDelete(eventId); the events[] of
\* the event's case is not touched, and no Event hook runs.
deleteEvent(u, id) ==
  LET found == {e \in events : e.id = id}
      answer(status) == Response("deleteEvent", u, id, status, NoBody, {})
  IN
  IF found = {}
  THEN /\ last' = answer(404)
       /\ UNCHANGED <<cases, events, nextId>>
  ELSE LET event == CHOOSE e \in found : TRUE
       IN
       IF deleteEventThrows(u, event)
       THEN /\ last' = answer(500)
            /\ UNCHANGED <<cases, events, nextId>>
       ELSE IF ~mayDeleteEvent(u, event)
       THEN /\ last' = answer(403)
            /\ UNCHANGED <<cases, events, nextId>>
       ELSE /\ events' = events \ found
            /\ last' = answer(200)
            /\ UNCHANGED <<cases, nextId>>

\* getEvents: the ids of the cases the user is involved in (client or
\* clients.user for a client, lawyer or lawyers.user for a lawyer)
userCaseIds(u) ==
  CASE Role(u) = "client" ->
         {c.id : c \in {d \in cases :
            \/ d.client = u
            \/ \E i \in 1..Len(d.clients) :
                 "user" \in DOMAIN d.clients[i] /\ d.clients[i].user = u}}
    [] Role(u) = "lawyer" ->
         {c.id : c \in {d \in cases :
            \/ d.lawyer = u
            \/ \E i \in 1..Len(d.lawyers) : d.lawyers[i].user = u}}
    [] OTHER -> {}

\* getEvents: filter.case = { $in: userCaseIds } only if userCaseIds is not
\* empty, then filter.case = caseId if a caseId is given
eventFilter(u, caseId, ev) ==
  IF caseId # NoCase THEN ev.case = caseId
  ELSE userCaseIds(u) # {} => ev.case \in userCaseIds(u)

\* exports.getEvents (limit 1000: the first page holds every match)
getEvents(u, caseId) ==
  /\ last' = Response("getEvents", u, caseId, 200, NoEventBody,
               {e.id : e \in {ev \in events : eventFilter(u, caseId, ev)}})
  /\ UNCHANGED <<cases, events, nextId>>

(***************************************************************************)
(* Documents: uploadDocument and getDocuments (document controller).       *)
(***************************************************************************)
\* exports.uploadDocument with a file attached: Document.create, then
\* caseItem.documents.push(id); caseItem.save() (not a new document, so the
\* post("save") hook of the case does nothing).
uploadDocument(u, caseId) ==
  LET found == {c \in cases : c.id = caseId}
      newDocument ==
        [id |-> Cardinality(documents) + 1, case |-> caseId, uploadedBy |-> u]
      answer(status) == Response("uploadDocument", u, caseId, status, NoBody, {})
  IN
  IF found = {}
  THEN /\ last' = answer(404)
       /\ UNCHANGED <<cases, events, nextId, documents>>
  ELSE LET caseItem == CHOOSE c \in found : TRUE
           saved == [caseItem EXCEPT !.documents = Append(@, newDocument.id)]
           hooked == CasePostSave(saved, FALSE,
                       (cases \ {caseItem}) \cup {saved}, events)
       IN
       IF addEventThrows(u, caseItem)
       THEN /\ last' = answer(500)
            /\ UNCHANGED <<cases, events, nextId, documents>>
       ELSE IF ~mayAddEvent(u, caseItem)
       THEN /\ last' = answer(403)
            /\ UNCHANGED <<cases, events, nextId, documents>>
       ELSE /\ documents' = documents \cup {newDocument}
            /\ cases' = hooked.cases
            /\ events' = hooked.events
            /\ last' = answer(201)
            /\ UNCHANGED nextId

\* getDocuments: Case.find({ client }) for a client, Case.find({ lawyer })
\* for a lawyer
assignedCaseIds(u) == {c.id : c \in {d \in cases :
  \/ Role(u) = "client" /\ d.client = u
  \/ Role(u) = "lawyer" /\ d.lawyer = u}}

\* getDocuments: filter.case = { $in: ids } for a client or a lawyer, then
\* filter.case = caseId if a caseId is given
documentFilter(u, caseId, doc) ==
  IF caseId # NoCase THEN doc.case = caseId
  ELSE Role(u) \in {"client", "lawyer"} => doc.case \in assignedCaseIds(u)

\* exports.getDocuments (every match fits the first page)
getDocuments(u, caseId) ==
  /\ last' = Response("getDocuments", u, caseId, 200, NoBody,
               {d.id : d \in {doc \in documents : documentFilter(u, caseId, doc)}})
  /\ UNCHANGED <<cases, events, nextId, documents>>

(***************************************************************************)
(* Requests to the event and document controllers.                         *)
(***************************************************************************)
\* the numbers of events and of documents the model stores
MaxEvents == 2
MaxDocuments == 2

EventIds == 1..MaxEvents

hearingBody(caseId, start, end) ==
  [NoEventBody EXCEPT !.title = "e", !.start = start, !.end = end,
     !.location = "court", !.case = caseId]

CreateEvent(bodies) ==
  /\ Cardinality(events) < MaxEvents
  /\ \E u \in Callers, body \in bodies : createEvent(u, body)
  /\ UNCHANGED aside
UpdateEvent(bodies) ==
  /\ \E u \in Callers, id \in EventIds, body \in bodies : updateEvent(u, id, body)
  /\ UNCHANGED aside
GetEvents ==
  /\ \E u \in Callers, caseId \in CaseIds \cup {NoCase} : getEvents(u, caseId)
  /\ UNCHANGED aside
UploadDocument ==
  /\ Cardinality(documents) < MaxDocuments
  /\ \E u \in Callers, caseId \in CaseIds : uploadDocument(u, caseId)
  /\ UNCHANGED <<pending, prev>>
GetDocuments ==
  /\ \E u \in Callers, caseId \in CaseIds \cup {NoCase} : getDocuments(u, caseId)
  /\ UNCHANGED <<pending, prev>>

\* two cases, each created by a lawyer, a client or an admin
TwoCaseBodies == {BasePayload, [BasePayload EXCEPT !.caseNumber = "CN2"]}

EventCreateBodies ==
  {hearingBody(1, 1, 2),
   hearingBody(1, 2, 2),
   [NoEventBody EXCEPT !.title = "e", !.start = 1, !.end = 2,
      !.type = "client_meeting"]}

EventUpdateBodies ==
  {[NoEventBody EXCEPT !.end = 1],
   [NoEventBody EXCEPT !.start = 3],
   [NoEventBody EXCEPT !.start = 2, !.end = 3]}

NextEvents ==
  \/ CreateCase({BasePayload}, {TRUE})
  \/ CreateEvent(EventCreateBodies)
  \/ UpdateEvent(EventUpdateBodies)

SpecEvents == Init /\ [][NextEvents]_vars

\* a hearing of either case
OwnedEventBodies == {hearingBody(id, 1, 2) : id \in CaseIds}

NextEventAccess ==
  \/ CreateCase(TwoCaseBodies, {TRUE})
  \/ CreateEvent(OwnedEventBodies)
  \/ GetEvents
  \/ DeleteCase

SpecEventAccess == Init /\ [][NextEventAccess]_vars

NextDocuments ==
  \/ CreateCase(TwoCaseBodies, {TRUE})
  \/ UploadDocument
  \/ GetDocuments
  \/ DeleteCase

SpecDocuments == Init /\ [][NextDocuments]_vars

(***************************************************************************)
(* Repeated updates: every request is followed by prev' = last, so that a  *)
(* state shows the last two requests.                                      *)
(***************************************************************************)
IdemCallers == {"L1", "K1"}

IdemUpdateBodies ==
  {[NoBody EXCEPT !.nextHearingDate = 2,
      !.clients = Arr(<<cl(Undefined, Undefined)>>)],
   [NoBody EXCEPT !.lawyer = "L2"],
   [NoBody EXCEPT !.lawyer = Null],
   [NoBody EXCEPT !.parties =
      [t |-> "object", petitioner |-> Arr(<<[name |-> "P"]>>),
       respondent |-> Undef]]}

NextIdem ==
  \/ /\ \E u \in IdemCallers : createCase(u, BasePayload, TRUE)
     /\ prev' = last
     /\ UNCHANGED <<documents, pending>>
  \/ /\ \E u \in IdemCallers, id \in CaseIds, body \in IdemUpdateBodies :
          updateCase(u, id, body)
     /\ prev' = last
     /\ UNCHANGED <<documents, pending>>
  \/ /\ Cardinality(events) < MaxEvents
     /\ \E u \in IdemCallers : createEvent(u, hearingBody(1, 1, 2))
     /\ prev' = last
     /\ UNCHANGED <<documents, pending>>

SpecIdem == Init /\ [][NextIdem]_vars

(***************************************************************************)
(* Concurrent requests.  Express runs a handler up to its next await and   *)
(* then lets another request run: createCase is cut between Case.findOne   *)
(* and Case.create, updateCase between Case.findById and                   *)
(* Case.findByIdAndUpdate.  pending[s] holds what the request on           *)
(* connection s has read so far, and afterwards how it was answered.       *)
(***************************************************************************)
\* The record left on a connection by an answered request: at is the step
\* that answered, stale tells whether the store had changed, when that step
\* ran, since the request read it.
Done(op, u, id, status, body, at, stale) ==
  [pc |-> "done", op |-> op, user |-> u, id |-> id, status |-> status,
   req |-> body, at |-> at, stale |-> stale]

\* a connection that can take a request: each one carries a single request
free(s) == pending[s].pc = "idle"

\* the unique index no longer accepts every insert
uniqueIndexAcceptsAll(cs, cn) == FALSE

\* caseNumber: { unique: true, index: true }: the insert of a document whose
\* caseNumber is already stored fails with E11000 (keyPattern.caseNumber).
uniqueIndexRejects(cs, cn) == \E c \in cs : c.caseNumber = cn

\* exports.createCase up to and including  await Case.findOne(...)
createCaseFind(s, u, body) ==
  LET caseData == createCaseData(u, body)
  IN
  /\ free(s)
  /\ UNCHANGED <<cases, events, nextId>>
  /\ IF ~createCaseSchemaValid(body)
     THEN /\ last' = Response("createCase", u, 0, 400, body, {})
          /\ pending' = [pending EXCEPT
                           ![s] = Done("createCase", u, 0, 400, body, "find", FALSE)]
     ELSE IF caseNumberTaken(cases, caseData.caseNumber)
     THEN /\ last' = Response("createCase", u, 0, 409, body, {})
          /\ pending' = [pending EXCEPT
                           ![s] = Done("createCase", u, 0, 409, body, "find", FALSE)]
     ELSE /\ pending' = [pending EXCEPT
                           ![s] = [pc |-> "insert", op |-> "createCase",
                                   user |-> u, req |-> body]]
          /\ UNCHANGED last

\* exports.createCase from  await Case.create(caseData)  to the response,
\* the catch block included: E11000 on caseNumber is answered 409.
createCaseInsert(s, notifyOk) ==
  LET u == pending[s].user
      body == pending[s].req
      caseData == createCaseData(u, body)
      doc == castCase(nextId, caseData)
      hooked == CasePostSave(doc, isNewInPostSave, cases \cup {doc}, events)
  IN
  /\ pending[s].pc = "insert"
  /\ IF ~caseSchemaValid(caseData)
     THEN /\ last' = Response("createCase", u, 0, 500, body, {})
          /\ pending' = [pending EXCEPT
                           ![s] = Done("createCase", u, 0, 500, body, "insert",
                                       caseNumberTaken(cases, caseData.caseNumber))]
          /\ UNCHANGED <<cases, events, nextId>>
     ELSE IF uniqueIndexRejects(cases, caseData.caseNumber)
     THEN /\ last' = Response("createCase", u, 0, 409, body, {})
          /\ pending' = [pending EXCEPT
                           ![s] = Done("createCase", u, 0, 409, body, "insert",
                                       TRUE)]
          /\ UNCHANGED <<cases, events, nextId>>
     ELSE /\ nextId <= MaxCases
          /\ cases' = hooked.cases
          /\ events' = hooked.events
          /\ nextId' = nextId + 1
          /\ last' = Response("createCase", u, nextId,
                              IF notifyOk THEN 201 ELSE 500, body, {})
          /\ pending' = [pending EXCEPT
                           ![s] = Done("createCase", u, nextId,
                                       IF notifyOk THEN 201 ELSE 500, body,
                                       "insert", FALSE)]

\* exports.updateCase up to and including  await Case.findById(caseId)
updateCaseFind(s, u, id, body) ==
  LET body1 == [body EXCEPT !.parties = patchParties(@)]
      found == {c \in cases : c.id = id}
  IN
  /\ free(s)
  /\ UNCHANGED <<cases, events, nextId>>
  /\ IF patchPartiesThrows(body.parties)
     THEN /\ last' = Response("updateCase", u, id, 500, body, {})
          /\ pending' = [pending EXCEPT
                           ![s] = Done("updateCase", u, id, 500, body, "find", FALSE)]
     ELSE IF ~updateCaseSchemaValid(body1)
     THEN /\ last' = Response("updateCase", u, id, 400, body, {})
          /\ pending' = [pending EXCEPT
                           ![s] = Done("updateCase", u, id, 400, body, "find", FALSE)]
     ELSE IF found = {}
     THEN /\ last' = Response("updateCase", u, id, 404, body, {})
          /\ pending' = [pending EXCEPT
                           ![s] = Done("updateCase", u, id, 404, body, "find", FALSE)]
     ELSE /\ pending' = [pending EXCEPT
                           ![s] = [pc |-> "write", op |-> "updateCase",
                                   user |-> u, id |-> id, req |-> body,
                                   caseToUpdate |-> CHOOSE c \in found : TRUE]]
          /\ UNCHANGED last

\* exports.updateCase from the authorization check on the document read
\* earlier to the response: Case.findByIdAndUpdate writes the document as
\* it is stored now and runs the post("findOneAndUpdate") hook; it yields
\* null for a case deleted meanwhile, and updatedCase.title then throws.
updateCaseWrite(s) ==
  LET u == pending[s].user
      id == pending[s].id
      body == pending[s].req
      body1 == [body EXCEPT !.parties = patchParties(@)]
      caseToUpdate == pending[s].caseToUpdate
      upd == updatePayload(body1, caseToUpdate)
      stored == {c \in cases : c.id = id}
  IN
  /\ pending[s].pc = "write"
  /\ UNCHANGED nextId
  /\ IF ~mayUpdate(u, caseToUpdate)
     THEN /\ last' = Response("updateCase", u, id, 403, body, {})
          /\ pending' = [pending EXCEPT
                           ![s] = Done("updateCase", u, id, 403, body, "write",
                                       stored # {caseToUpdate})]
          /\ UNCHANGED <<cases, events>>
     ELSE IF \/ ~updateSchemaValid(upd)
             \/ duplicateKey(cases, id, upd)
             \/ stored = {}
     THEN /\ last' = Response("updateCase", u, id, 500, body, {})
          /\ pending' = [pending EXCEPT
                           ![s] = Done("updateCase", u, id, 500, body, "write",
                                       stored # {caseToUpdate})]
          /\ UNCHANGED <<cases, events>>
     ELSE LET current == CHOOSE c \in stored : TRUE
              updatedCase == applyUpdate(current, upd)
              hooked == CasePostFindOneAndUpdate(updatedCase, castUpdate(upd),
                          (cases \ {current}) \cup {updatedCase}, events)
          IN  /\ cases' = hooked.cases
              /\ events' = hooked.events
              /\ last' = Response("updateCase", u, id, 200, body, {})
              /\ pending' = [pending EXCEPT
                               ![s] = Done("updateCase", u, id, 200, body,
                                           "write", current # caseToUpdate)]

RaceCallers == {"L1"}

RaceCreateBodies ==
  TwoCaseBodies
    \cup {[BasePayload EXCEPT !.lawyers = Arr(<<lw("L2", TRUE, Undefined)>>)]}

RaceUpdateBodies ==
  {[NoBody EXCEPT !.nextHearingDate = 2],
   [NoBody EXCEPT !.nextHearingDate = 3]}

CreateCaseFind ==
  /\ \E s \in Slots, u \in IdemCallers, body \in RaceCreateBodies :
       createCaseFind(s, u, body)
  /\ UNCHANGED <<documents, prev>>

CreateCaseInsert ==
  /\ \E s \in Slots, notifyOk \in BOOLEAN : createCaseInsert(s, notifyOk)
  /\ UNCHANGED <<documents, prev>>

UpdateCaseFind ==
  /\ \E s \in Slots, u \in RaceCallers, id \in CaseIds,
        body \in RaceUpdateBodies : updateCaseFind(s, u, id, body)
  /\ UNCHANGED <<documents, prev>>

UpdateCaseWrite ==
  /\ \E s \in Slots : updateCaseWrite(s)
  /\ UNCHANGED <<documents, prev>>

\* concurrent createCase requests
NextRace ==
  \/ CreateCaseFind
  \/ CreateCaseInsert

SpecRace == Init /\ [][NextRace]_vars

\* concurrent updateCase requests on stored cases and events
NextUpdateRace ==
  \/ /\ \E u \in RaceCallers, body \in TwoCaseBodies :
          createCase(u, body, TRUE)
     /\ UNCHANGED aside
  \/ /\ Cardinality(events) < MaxEvents
     /\ \E u \in RaceCallers : createEvent(u, hearingBody(nextId - 1, 1, 2))
     /\ UNCHANGED aside
  \/ UpdateCaseFind
  \/ UpdateCaseWrite

SpecUpdateRace == Init /\ [][NextUpdateRace]_vars

\* concurrent updateCase requests that set different fields, parties among
\* them, on one stored case
FieldUpdateBodies ==
  {[NoBody EXCEPT !.parties =
      [t |-> "object", petitioner |-> Arr(<<[name |-> "P"]>>),
       respondent |-> Undef]],
   [NoBody EXCEPT !.status = "closed"],
   [NoBody EXCEPT !.nextHearingDate = 2],
   [NoBody EXCEPT !.nextHearingDate = 3]}

NextFieldRace ==
  \/ /\ \E u \in RaceCallers : createCase(u, BasePayload, TRUE)
     /\ UNCHANGED aside
  \/ /\ \E s \in Slots, u \in RaceCallers, id \in CaseIds,
          body \in FieldUpdateBodies : updateCaseFind(s, u, id, body)
     /\ UNCHANGED <<documents, prev>>
  \/ UpdateCaseWrite

SpecFieldRace == Init /\ [][NextFieldRace]_vars

\* updateCase requests that change the caseNumber
NumberUpdateBodies ==
  {[NoBody EXCEPT !.caseNumber = cn] : cn \in CaseNumbers}
    \cup {[NoBody EXCEPT !.status = "closed"]}

NextNumbers ==
  \/ CreateCase(TwoCaseBodies, {TRUE})
  \/ UpdateCase(NumberUpdateBodies)

SpecNumbers == Init /\ [][NextNumbers]_vars

(***************************************************************************)
(* The role guard of the case routes.  The repository holds three case     *)
(* route files; which one the server mounts is not fixed by the sources,   *)
(* so a request goes through any of them.                                  *)
(***************************************************************************)
RouteFiles == {"part_017", "part_018", "case.routes.js"}

RouteOps == {"createCase", "updateCase", "deleteCase", "addClientToCase"}

\* an argument of authorize(...): a role name, or an array of role names
RoleName(r) == [t |-> "string", v |-> <<r>>]
RoleArray(rs) == [t |-> "array", v |-> rs]

\* the route file declares a route for the operation
routeDeclared(file, op) == file = "case.routes.js" => op # "addClientToCase"

\* the arguments of the authorize(...) call on the route; <<>> when the
\* route has no role guard
guardRoles(file, op) ==
  CASE file = "part_017" ->
         IF op = "deleteCase" THEN <<RoleName("admin")>> ELSE <<>>
    [] file = "part_018" ->
         IF op = "deleteCase" THEN <<RoleName("admin")>>
         ELSE <<RoleName("lawyer"), RoleName("admin")>>
    [] OTHER ->
         IF op = "deleteCase" THEN <<RoleArray(<<"admin">>)>>
         ELSE <<RoleArray(<<"admin", "lawyer">>)>>

routeGuarded(file, op) == ~(file = "part_017" /\ op # "deleteCase")

\* exports.authorize = (...roles) => ... roles.includes(req.user.role):
\* roles is the list of the arguments, and includes compares each of them
\* with the role by ===, so an array argument equals no role.
rolesInclude(roles, role) ==
  \E i \in 1..Len(roles) : roles[i] = RoleName(role)

\* the request reaches the controller
guardPasses(file, op, u) ==
  routeGuarded(file, op) => rolesInclude(guardRoles(file, op), Role(u))

\* res.status(403).json(...) sent by authorize; the controller is not called
guardRejects(u, id, body) ==
  /\ last' = Response("authorize", u, id, 403, body, {})
  /\ UNCHANGED <<cases, events, nextId>>

routeCreateCase(file, u, body) ==
  IF guardPasses(file, "createCase", u)
  THEN createCase(u, body, TRUE) ELSE guardRejects(u, 0, body)

routeUpdateCase(file, u, id, body) ==
  IF guardPasses(file, "updateCase", u)
  THEN updateCase(u, id, body) ELSE guardRejects(u, id, body)

routeDelete(file, u, id) ==
  IF guardPasses(file, "deleteCase", u)
  THEN deleteCase(u, id) ELSE guardRejects(u, id, NoBody)

routeAddClientToCase(file, u, id) ==
  /\ routeDeclared(file, "addClientToCase")
  /\ IF guardPasses(file, "addClientToCase", u)
     THEN addClientToCase(u, id, "K1")
     ELSE guardRejects(u, id, [NoBody EXCEPT !.client = "K1"])

RouteUpdateBodies == {[NoBody EXCEPT !.status = "closed"]}

RouteCreateCase ==
  /\ \E file \in RouteFiles, u \in Callers, body \in TwoCaseBodies :
       routeCreateCase(file, u, body)
  /\ UNCHANGED aside

RouteUpdateCase ==
  /\ \E file \in RouteFiles, u \in Callers, id \in CaseIds,
        body \in RouteUpdateBodies : routeUpdateCase(file, u, id, body)
  /\ UNCHANGED aside

RouteDelete ==
  /\ \E file \in RouteFiles, u \in Callers, id \in CaseIds :
       routeDelete(file, u, id)
  /\ UNCHANGED aside

RouteAddClientToCase ==
  /\ \E file \in RouteFiles, u \in Callers, id \in CaseIds :
       routeAddClientToCase(file, u, id)
  /\ UNCHANGED aside

NextRoutes ==
  \/ RouteCreateCase
  \/ RouteUpdateCase
  \/ RouteDelete
  \/ RouteAddClientToCase

SpecRoutes == Init /\ [][NextRoutes]_vars

(***************************************************************************)
(* Rejected case requests on a store that holds cases, events and          *)
(* documents.                                                              *)
(***************************************************************************)
RejectCallers == {"L1", "L2"}

RejectCreateBodies == {BasePayload, [BasePayload EXCEPT !.title = Undefined]}

RejectUpdateBodies ==
  {[NoBody EXCEPT !.status = "closed"],
   [NoBody EXCEPT !.status = "unknown"]}

NextRejects ==
  \/ /\ \E u \in RejectCallers, body \in RejectCreateBodies :
          createCase(u, body, TRUE)
     /\ UNCHANGED aside
  \/ /\ \E u \in RejectCallers, id \in CaseIds, body \in RejectUpdateBodies :
          updateCase(u, id, body)
     /\ UNCHANGED aside
  \/ /\ Cardinality(events) < MaxEvents
     /\ \E u \in RejectCallers : createEvent(u, hearingBody(1, 1, 2))
     /\ UNCHANGED aside
  \/ /\ Cardinality(documents) < MaxDocuments
     /\ \E u \in RejectCallers : uploadDocument(u, 1)
     /\ UNCHANGED <<pending, prev>>

SpecRejects == Init /\ [][NextRejects]_vars

\* hearing-date updates of a case that has events
NextHearingEvents ==
  \/ /\ \E u \in RaceCallers, body \in TwoCaseBodies : createCase(u, body, TRUE)
     /\ UNCHANGED aside
  \/ /\ \E u \in RaceCallers, id \in CaseIds, body \in HearingUpdateBodies :
          updateCase(u, id, body)
     /\ UNCHANGED aside
  \/ /\ Cardinality(events) < MaxEvents
     /\ \E u \in RaceCallers, id \in CaseIds :
          createEvent(u, hearingBody(id, 1, 2))
     /\ UNCHANGED aside

SpecHearingEvents == Init /\ [][NextHearingEvents]_vars

(***************************************************************************)
(* Events created and deleted on stored cases.  An ObjectId is never used  *)
(* twice: no event is created once the next id is one a case still lists.  *)
(***************************************************************************)
IntegrityCallers == {"L1", "K1"}

freshEventId ==
  \A c \in cases : \A i \in 1..Len(c.events) : c.events[i] # newEventId(events)

NextIntegrity ==
  \/ /\ \E u \in IntegrityCallers, body \in TwoCaseBodies :
          createCase(u, body, TRUE)
     /\ UNCHANGED aside
  \/ /\ \E u \in IntegrityCallers, id \in CaseIds, body \in HearingUpdateBodies :
          updateCase(u, id, body)
     /\ UNCHANGED aside
  \/ /\ Cardinality(events) < MaxEvents /\ freshEventId
     /\ \E u \in IntegrityCallers, id \in CaseIds :
          createEvent(u, hearingBody(id, 1, 2))
     /\ UNCHANGED aside
  \/ /\ \E u \in IntegrityCallers, id \in EventIds : deleteEvent(u, id)
     /\ UNCHANGED aside

SpecIntegrity == Init /\ [][NextIntegrity]_vars

(***************************************************************************)
(* The middleware chain, one store write at a time.  A slot holds the      *)
(* position of one chain: the hook that runs next ("post"), an             *)
(* Event.create that has returned to createEvent ("created"), or the end   *)
(* ("done"); ctx counts the store writes and the hooks run so far.         *)
(***************************************************************************)
\* a registration in which every Case write runs the Case synchronizer
middlewareOnEveryCaseWrite(model, operation) ==
  IF model = "Case"
  THEN IF operation = "save" THEN "CasePostSave" ELSE "CasePostFindOneAndUpdate"
  ELSE IF model = "Event" /\ operation = "save" THEN "EventPostSave"
  ELSE "none"

\* the post hook the schemas register for an operation of a model:
\* CaseSchema.post("save"), CaseSchema.post("findOneAndUpdate"),
\* EventSchema.post("save"); no other operation has one
middleware(model, operation) ==
  IF model = "Case" /\ operation = "save" THEN "CasePostSave"
  ELSE IF model = "Case" /\ operation = "findOneAndUpdate"
  THEN "CasePostFindOneAndUpdate"
  ELSE IF model = "Event" /\ operation = "save" THEN "EventPostSave"
  ELSE "none"

\* the store operation has resolved: Event.create returns to createEvent,
\* which goes on to push the event onto its case; any other chain is over
returned(ctx) ==
  IF ctx.origin = "Event.create" THEN [pc |-> "created", ctx |-> ctx]
  ELSE [pc |-> "done", ctx |-> ctx]

\* what follows a write: the post hook of the operation, if it has one
afterWrite(model, operation, id, update, ctx) ==
  IF middleware(model, operation) = "none" THEN returned(ctx)
  ELSE [pc |-> "post", hook |-> middleware(model, operation), id |-> id,
        update |-> update, ctx |-> ctx]

\* one more store write, one more hook run
wrote(ctx, n) == [ctx EXCEPT !.writes = @ + n]
ran(ctx) == [ctx EXCEPT !.ran = @ + 1]

\* { $set: { nextHearingDate: doc.start } } of EventSchema.post("save")
setNextHearingDate(start) ==
  castUpdate([k \in {"nextHearingDate"} |-> start])

\* { $push: { events: newEvent._id } } of createEvent
pushEvents(eventId) == [k \in {"$push"} |-> [events |-> eventId]]

\* createCase's Case.create(caseData)
CaseCreate(s, u, body) ==
  LET caseData == createCaseData(u, body)
      doc == castCase(nextId, caseData)
  IN
  /\ free(s)
  /\ createCaseSchemaValid(body)
  /\ ~caseNumberTaken(cases, caseData.caseNumber)
  /\ caseSchemaValid(caseData)
  /\ nextId <= MaxCases
  /\ cases' = cases \cup {doc}
  /\ nextId' = nextId + 1
  /\ pending' =
       [pending EXCEPT ![s] =
          afterWrite("Case", "save", doc.id, <<>>,
                     [origin |-> "Case.create", case |-> doc.id, event |-> 0,
                      writes |-> 1, ran |-> 0])]
  /\ UNCHANGED <<events, last, documents, prev>>

\* updateCase's Case.findByIdAndUpdate(id, updatePayload)
CaseFindByIdAndUpdate(s, id, body) ==
  LET found == {c \in cases : c.id = id} IN
  /\ free(s)
  /\ found # {}
  /\ LET caseToUpdate == CHOOSE c \in found : TRUE
         upd == updatePayload([body EXCEPT !.parties = patchParties(@)],
                              caseToUpdate)
     IN  /\ cases' = (cases \ {caseToUpdate}) \cup {applyUpdate(caseToUpdate, upd)}
         /\ pending' =
              [pending EXCEPT ![s] =
                 afterWrite("Case", "findOneAndUpdate", id, castUpdate(upd),
                            [origin |-> "Case.findByIdAndUpdate", case |-> id,
                             event |-> 0, writes |-> 1, ran |-> 0])]
  /\ UNCHANGED <<events, nextId, last, documents, prev>>

\* createEvent's Event.create of a hearing on a stored case
EventCreate(s, u, id, start) ==
  LET ev == [id |-> newEventId(events), type |-> "hearing", case |-> id,
             start |-> start, end |-> start + 1, status |-> "scheduled",
             createdBy |-> u]
  IN
  /\ free(s)
  /\ Cardinality(events) < MaxEvents
  /\ \E c \in cases : c.id = id
  /\ ~eventPreSaveThrows(ev)
  /\ events' = events \cup {ev}
  /\ pending' =
       [pending EXCEPT ![s] =
          afterWrite("Event", "save", ev.id, <<>>,
                     [origin |-> "Event.create", case |-> id, event |-> ev.id,
                      writes |-> 1, ran |-> 0])]
  /\ UNCHANGED <<cases, nextId, last, documents, prev>>

\* the hook a chain has reached runs, with the writes it makes
RunHook(s) ==
  /\ pending[s].pc = "post"
  /\ LET p == pending[s] IN
     IF p.hook = "EventPostSave"
     THEN LET doc == CHOOSE e \in events : e.id = p.id IN
          /\ cases' = EventPostSave(doc, cases)
          /\ events' = events
          /\ pending' =
               [pending EXCEPT ![s] =
                  IF doc.type = "hearing" /\ doc.case # NoCase
                  THEN afterWrite("Case", "updateOne", doc.case,
                                  setNextHearingDate(doc.start),
                                  wrote(ran(p.ctx), 1))
                  ELSE returned(ran(p.ctx))]
     ELSE LET doc == CHOOSE c \in cases : c.id = p.id
              hooked == IF p.hook = "CasePostSave"
                        THEN CasePostSave(doc, isNewInPostSave, cases, events)
                        ELSE CasePostFindOneAndUpdate(doc, p.update, cases, events)
              saved == {e \in hooked.events : \A f \in events : f.id # e.id}
          IN
          /\ cases' = hooked.cases
          /\ events' = hooked.events
          /\ pending' =
               [pending EXCEPT ![s] =
                  IF saved # {}
                  THEN afterWrite("Event", "save",
                                  (CHOOSE e \in saved : TRUE).id, <<>>,
                                  wrote(ran(p.ctx), 2))
                  ELSE IF hooked.events # events
                  THEN afterWrite("Event", "findOneAndUpdate", p.id, <<>>,
                                  wrote(ran(p.ctx), 1))
                  ELSE returned(ran(p.ctx))]
  /\ UNCHANGED <<nextId, last, documents, prev>>

\* createEvent's Case.findByIdAndUpdate(caseId, { $push: { events } })
CasePushEvent(s) ==
  /\ pending[s].pc = "created"
  /\ LET ctx == pending[s].ctx IN
     /\ cases' = pushEvent(cases, ctx.case, ctx.event)
     /\ pending' =
          [pending EXCEPT ![s] =
             afterWrite("Case", "findOneAndUpdate", ctx.case,
                        pushEvents(ctx.event),
                        [wrote(ctx, 1) EXCEPT !.origin = "createEvent"])]
  /\ UNCHANGED <<events, nextId, last, documents, prev>>

\* updates that set a hearing date
HookUpdateBodies == {[NoBody EXCEPT !.nextHearingDate = d] : d \in Dates}

HookSteps == \E s \in Slots : RunHook(s) \/ CasePushEvent(s)

NextHooks ==
  \/ /\ \E u \in RaceCallers : createCase(u, BasePayload, TRUE)
     /\ UNCHANGED aside
  \/ \E s \in Slots, u \in RaceCallers :
       CaseCreate(s, u, [BasePayload EXCEPT !.caseNumber = "CN2",
                                            !.nextHearingDate = 1])
  \/ \E s \in Slots, id \in CaseIds, body \in HookUpdateBodies :
       CaseFindByIdAndUpdate(s, id, body)
  \/ \E s \in Slots, u \in RaceCallers, id \in CaseIds, start \in Dates :
       EventCreate(s, u, id, start)
  \/ \E s \in Slots : RunHook(s)
  \/ \E s \in Slots : CasePushEvent(s)

SpecHooks == Init /\ [][NextHooks]_vars

\* an awaited hook or write resumes: the event loop runs every pending
\* continuation
FairHooks == SpecHooks /\ WF_vars(HookSteps)

(***************************************************************************)
(* Properties.                                                             *)
(***************************************************************************)
\* an entry of lawyers[] or clients[] is flagged primary
IsPrimaryEntry(e) == "isPrimary" \in DOMAIN e /\ e.isPrimary = TRUE

\* the user reference of an entry (undefined when the entry has none)
entryUser(e) == IF "user" \in DOMAIN e THEN e.user ELSE Undefined

primaries(list) == {i \in 1..Len(list) : IsPrimaryEntry(list[i])}

\* a non-empty list has exactly one primary entry, and ref is its user
onePrimary(list, ref) ==
  Len(list) > 0 =>
    /\ Cardinality(primaries(list)) = 1
    /\ \A i \in primaries(list) : ref = entryUser(list[i])

\* the response reports a createCase or an updateCase that succeeded
succeeded(r) ==
  \/ r.op = "createCase" /\ r.status = 201
  \/ r.op = "updateCase" /\ r.status = 200

\* C1: in every reachable state, a case with a non-empty lawyers[] has
\* exactly one entry with isPrimary = true and case.lawyer is that entry's
\* user; the same for clients[] and case.client.
C1_OnePrimaryAgreesWithSingular ==
  \A c \in cases : onePrimary(c.lawyers, c.lawyer) /\ onePrimary(c.clients, c.client)

\* C2: after any createCase or updateCase, whatever the shape of the parties
\* sent, parties.petitioner and parties.respondent of every stored case are
\* arrays.
C2_PartiesAreArrays ==
  \A c \in cases : IsArray(c.parties.petitioner) /\ IsArray(c.parties.respondent)

\* C2 witness: an updateCase that sent an object whose petitioner side is
\* null and whose respondent side is a non-empty array was stored, and the
\* stored petitioner side is the empty array.
C2_Witness ==
  /\ last.op = "updateCase" /\ last.status = 200
  /\ last.req.parties.t = "object"
  /\ last.req.parties.petitioner.t = Null
  /\ Len(last.req.parties.respondent.v) = 1
  /\ \E c \in cases :
       /\ c.id = last.id
       /\ c.parties.petitioner = Arr(<<>>)
       /\ c.parties.respondent = Arr(<<[name |-> "P"]>>)

\* the body of an updateCase request passes the handler's patching and the
\* updateCaseSchema
validUpdateBody(body) ==
  /\ ~patchPartiesThrows(body.parties)
  /\ updateCaseSchemaValid([body EXCEPT !.parties = patchParties(@)])

\* C3 (as stated): every createCase whose caseNumber an existing case
\* already has answers 409, stores no case and leaves the existing cases
\* unchanged.
C3_DuplicateAlwaysConflict ==
  [][(/\ last'.op = "createCase"
      /\ \E c \in cases : c.caseNumber = last'.req.caseNumber)
     => (last'.status = 409 /\ cases' = cases /\ events' = events)]_vars

\* C3 (amended): a createCase whose body passes createCaseSchema and whose
\* caseNumber an existing case already has answers 409, stores no case and
\* leaves the existing cases unchanged.
C3_ValidDuplicateConflict ==
  [][(/\ last'.op = "createCase"
      /\ createCaseSchemaValid(last'.req)
      /\ \E c \in cases : c.caseNumber = last'.req.caseNumber)
     => (last'.status = 409 /\ cases' = cases /\ events' = events)]_vars

\* C3 witness: a createCase with a valid body was answered 409 while a case
\* with that caseNumber is stored, and no case was created by the request.
C3_Witness ==
  /\ last.op = "createCase" /\ last.status = 409 /\ last.id = 0
  /\ createCaseSchemaValid(last.req)
  /\ Cardinality({c \in cases : c.caseNumber = last.req.caseNumber}) = 1

\* a client-role user that is neither case.client nor in clients[].user
clientOutsider(u, c) ==
  /\ Role(u) = "client"
  /\ c.client # u
  /\ \A i \in 1..Len(c.clients) : entryUser(c.clients[i]) # u

\* C4 (as stated): a client-role user that is neither case.client nor listed
\* in clients[].user gets 403 from getCase, updateCase and deleteCase on that
\* case, and the case is never in that user's getCases result.
C4_ClientOutsiderForbidden ==
  [][\A c \in cases :
       clientOutsider(last'.user, c) =>
         /\ (last'.op \in {"getCase", "updateCase", "deleteCase"} /\ last'.id = c.id)
              => last'.status = 403
         /\ last'.op = "getCases" => c.id \notin last'.list]_vars

\* C4 (amended): a client-role user that is neither case.client nor
\* case.lawyer gets 403 from getCase and deleteCase on that case, and from
\* updateCase with a valid body when the case has a client assigned; the case
\* is never in that user's getCases result.
C4_ClientNonMemberForbidden ==
  [][\A c \in cases :
       (Role(last'.user) = "client" /\ c.client # last'.user /\ c.lawyer # last'.user) =>
         /\ (last'.op \in {"getCase", "deleteCase"} /\ last'.id = c.id)
              => (last'.status = 403 /\ cases' = cases)
         /\ (/\ last'.op = "updateCase" /\ last'.id = c.id
             /\ validUpdateBody(last'.req) /\ ~Unset(c.client))
              => (last'.status = 403 /\ cases' = cases)
         /\ last'.op = "getCases" => c.id \notin last'.list]_vars

\* C4 witness: client K1 asked to update a case whose client is another user
\* and whose lawyer is not K1, and was answered 403.
C4_Witness ==
  /\ last.op = "updateCase" /\ last.user = "K1" /\ last.status = 403
  /\ \E c \in cases : c.id = last.id /\ c.client = "L2" /\ c.lawyer = "L1"

hearingsOf(id) == {e \in events : e.case = id /\ e.type = "hearing"}

\* C5: after a successful createCase or updateCase that sets
\* nextHearingDate = T, the case has exactly one hearing event and its start
\* is T.
C5_HearingEventMirrorsDate ==
  (succeeded(last) /\ last.req.nextHearingDate \in Dates) =>
    /\ Cardinality(hearingsOf(last.id)) = 1
    /\ \A e \in hearingsOf(last.id) : e.start = last.req.nextHearingDate

lawyerUsers(c) == {entryUser(c.lawyers[i]) : i \in 1..Len(c.lawyers)}
clientUsers(c) == {entryUser(c.clients[i]) : i \in 1..Len(c.clients)}

\* the cases the access filter is specified to show to u
visibleTo(u, c) ==
  CASE Role(u) = "client" -> c.client = u \/ u \in clientUsers(c)
    [] Role(u) = "lawyer" -> c.lawyer = u \/ u \in lawyerUsers(c)
    [] OTHER -> TRUE

\* C6: getCases returns exactly the stored cases that match the query and
\* of which the user is a member: client or in clients[].user for a client,
\* lawyer or in lawyers[].user for a lawyer, every case for an admin.
C6_GetCasesByMembership ==
  last.op = "getCases" =>
    last.list = {c.id : c \in {d \in cases :
                    /\ visibleTo(last.user, d)
                    /\ last.req.status \in {Undefined, d.status}}}

\* the users the specification authorizes for op on case c
authorizedFor(op, u, c) ==
  \/ c.lawyer = u
  \/ c.client = u
  \/ op = "updateCase" /\ Role(u) = "lawyer" /\ Unset(c.lawyer)
  \/ op = "updateCase" /\ Role(u) = "client" /\ Unset(c.client)
  \/ op = "deleteCase" /\ Role(u) = "admin"

\* C7: on an existing case, getCase, updateCase (valid body) and deleteCase
\* succeed exactly for the primary lawyer, the primary client, on update a
\* lawyer/client self-assigning to a case without one, and on delete an
\* admin; every other user is answered 403 and the case is unchanged.
C7_AuthorizedExactlyWhen ==
  [][\A c \in cases :
       (/\ last'.op \in {"getCase", "updateCase", "deleteCase"}
        /\ last'.id = c.id
        /\ last'.op = "updateCase" => validUpdateBody(last'.req))
       => IF authorizedFor(last'.op, last'.user, c)
          THEN last'.status = 200
          ELSE last'.status = 403 /\ cases' = cases]_vars

\* the requests that name one case
ByIdOps == {"getCase", "updateCase", "deleteCase", "routeDeleteCase"}

C9_CreatorSynthesizedPrimary ==
  (last.op = "createCase" /\ last.status = 201) =>
    \A c \in cases : c.id = last.id =>
      /\ (Role(last.user) = "lawyer" /\ Len(last.req.lawyers.v) = 0) =>
           /\ c.lawyer = last.user
           /\ Len(c.lawyers) = 1
           /\ entryUser(c.lawyers[1]) = last.user
           /\ IsPrimaryEntry(c.lawyers[1])
           /\ c.lawyers[1].role = "lead"
      /\ (Role(last.user) = "client" /\ Len(last.req.clients.v) = 0) =>
           /\ c.client = last.user
           /\ Len(c.clients) = 1
           /\ entryUser(c.clients[1]) = last.user
           /\ IsPrimaryEntry(c.clients[1])

\* the entry the singular reference is taken from: the first flagged
\* primary, else the first
primaryLawyerIndex(list) ==
  IF findPrimaryLawyer(list) # 0 THEN findPrimaryLawyer(list) ELSE 1

primaryClientIndex(list) ==
  IF findPrimaryClient(list) # 0 THEN findPrimaryClient(list) ELSE 1

\* C10: after a successful createCase or updateCase that sent a non-empty
\* lawyers[] (clients[]), the stored entry at the position of the first
\* flagged primary (else the first entry) is primary and case.lawyer
\* (case.client) is the user of that sent entry.
C10_SingularResyncedFromArrays ==
  succeeded(last) =>
    \A c \in cases : c.id = last.id =>
      /\ Len(last.req.lawyers.v) > 0 =>
           LET i == primaryLawyerIndex(last.req.lawyers.v)
           IN  /\ Len(c.lawyers) = Len(last.req.lawyers.v)
               /\ IsPrimaryEntry(c.lawyers[i])
               /\ c.lawyer = last.req.lawyers.v[i].user
      /\ Len(last.req.clients.v) > 0 =>
           LET i == primaryClientIndex(last.req.clients.v)
           IN  /\ Len(c.clients) = Len(last.req.clients.v)
               /\ IsPrimaryEntry(c.clients[i])
               /\ c.client = last.req.clients.v[i].user

hasHearingDate(id) ==
  \E c \in cases : c.id = id /\ c.nextHearingDate \notin {NoDate, NullDate}

\* a scheduled hearing event of the stored case id starts at its hearing date
hearingSynced(id) ==
  \E c \in cases :
    /\ c.id = id
    /\ \E e \in scheduledHearings(events, id) : e.start = c.nextHearingDate

\* C16: whenever a stored case has a hearing date, a state is eventually
\* reached where a scheduled hearing event of that case starts at the
\* case's nextHearingDate.
C16_HearingEventEventuallySynced ==
  \A id \in CaseIds : hasHearingDate(id) ~> hearingSynced(id)

\* C13: a createCase that stored its case answers 201 whatever the
\* notification steps that follow Case.create do: a failed notification is
\* never a failure of createCase.
C13_NotificationFailureInvisible ==
  (last.op = "createCase" /\ \E c \in cases : c.id = last.id) =>
    last.status = 201

\* C17: after a successful deleteCase of case C, no document and no event
\* with case = C is stored.
C17_DeleteCascades ==
  (last.op = "deleteCase" /\ last.status = 200) =>
    /\ \A e \in events : e.case # last.id
    /\ \A d \in documents : d.case # last.id

\* C18: every event getEvents returns to a client or a lawyer belongs to a
\* stored case the user is a member of (singular field or array), whatever
\* caseId is asked for and also when the user is a member of no case.
C18_EventsOfOwnCasesOnly ==
  (last.op = "getEvents" /\ Role(last.user) \in {"client", "lawyer"}) =>
    \A e \in events : e.id \in last.list =>
      \E c \in cases : c.id = e.case /\ visibleTo(last.user, c)

\* C19: every document getDocuments returns to a client or a lawyer belongs
\* to a stored case the user is assigned to, whatever caseId is asked for.
C19_DocumentsOfOwnCasesOnly ==
  (last.op = "getDocuments" /\ Role(last.user) \in {"client", "lawyer"}) =>
    \A d \in documents : d.id \in last.list =>
      \E c \in cases : c.id = d.case /\ visibleTo(last.user, c)

\* C20: every stored event has end strictly after start.
C20_EndAfterStart == \A e \in events : e.end > e.start


\* C21: Case.nextHearingDate and the start of the case's scheduled hearing
\* events agree in both directions: after a successful case write that sets
\* a hearing date every scheduled hearing event of the case starts at it,
\* and after a successful createEvent or updateEvent on a hearing event of a
\* stored case the case's nextHearingDate is that event's start.
C21_DateAndHearingStartAgree ==
  /\ (succeeded(last) /\ last.req.nextHearingDate \in Dates) =>
       \A e \in scheduledHearings(events, last.id) :
         e.start = last.req.nextHearingDate
  /\ (last.op \in {"createEvent", "updateEvent"} /\ last.status \in {200, 201}) =>
       \A e \in events :
         (e.id = last.id /\ e.type = "hearing") =>
           \A c \in cases : c.id = e.case => c.nextHearingDate = e.start


\* C22: an updateCase answered 200 whose payload has no parties leaves the
\* parties of the case as they are stored when it writes.
C22_AbsentPartiesKeepsStored ==
  [][\A s \in Slots :
       (/\ pending[s].pc = "write" /\ pending'[s].pc = "done"
        /\ pending'[s].status = 200
        /\ ~Truthy(pending[s].req.parties))
       => \A c \in cases, d \in cases' :
            (c.id = pending[s].id /\ d.id = c.id) => d.parties = c.parties]_vars

\* the fields of a case an updateCase payload sets
touched(req) ==
  {f \in {"status", "nextHearingDate", "parties"} :
     CASE f = "status" -> req.status # Undefined
       [] f = "nextHearingDate" -> req.nextHearingDate # NoDate
       [] f = "parties" -> Truthy(req.parties)}

\* the value the payload gives to a field it sets
sent(req, f) ==
  CASE f = "status" -> req.status
    [] f = "nextHearingDate" -> req.nextHearingDate
    [] f = "parties" -> newParties(patchParties(req.parties), req.parties)

\* C23: when two updateCase requests on the same case have both been
\* answered 200, every field only one of them sets has that request's
\* value, and a field both set has the value of one of them.
C23_LastWriterWinsPerField ==
  \A s, t \in Slots :
    (/\ s # t
     /\ pending[s].pc = "done" /\ pending[s].op = "updateCase"
     /\ pending[s].status = 200
     /\ pending[t].pc = "done" /\ pending[t].op = "updateCase"
     /\ pending[t].status = 200
     /\ pending[s].id = pending[t].id)
    => \A c \in cases :
         c.id = pending[s].id =>
           /\ \A f \in touched(pending[s].req) \ touched(pending[t].req) :
                c[f] = sent(pending[s].req, f)
           /\ \A f \in touched(pending[s].req) \cap touched(pending[t].req) :
                c[f] \in {sent(pending[s].req, f), sent(pending[t].req, f)}


\* C24: no two stored cases have the same caseNumber, and an updateCase by
\* a user allowed to update the case, whose payload carries the caseNumber
\* of another stored case, is answered 409 and leaves the cases unchanged.
C24_DuplicateNumberUpdateConflict ==
  /\ [](\A c, d \in cases : c.caseNumber = d.caseNumber => c = d)
  /\ [][(/\ last'.op = "updateCase"
         /\ \E c, d \in cases :
              /\ c.id = last'.id /\ d.id # c.id
              /\ d.caseNumber = last'.req.caseNumber
              /\ mayUpdate(last'.user, c))
        => (last'.status = 409 /\ cases' = cases)]_vars


\* C25: a request on a case route is answered by createCase, updateCase or
\* addClientToCase exactly when the caller's role is lawyer or admin, and by
\* deleteCase exactly when it is admin; otherwise authorize answers 403.
C25_GuardAdmitsExactlyByRole ==
  [][\A file \in RouteFiles, u \in Callers :
       /\ \A body \in TwoCaseBodies :
            routeCreateCase(file, u, body) =>
              (last'.op = "createCase" <=> Role(u) \in {"lawyer", "admin"})
       /\ \A id \in CaseIds, body \in RouteUpdateBodies :
            routeUpdateCase(file, u, id, body) =>
              (last'.op = "updateCase" <=> Role(u) \in {"lawyer", "admin"})
       /\ \A id \in CaseIds :
            routeAddClientToCase(file, u, id) =>
              (last'.op = "addClientToCase" <=> Role(u) \in {"lawyer", "admin"})
       /\ \A id \in CaseIds :
            routeDelete(file, u, id) =>
              (last'.op = "deleteCase" <=> Role(u) = "admin")]_vars


\* C26: a createCase or updateCase answered 400, 403, 404 or 409 leaves the
\* stored cases, events and documents unchanged.
C26_RejectedWriteChangesNothing ==
  [][(last'.op \in {"createCase", "updateCase"}
        /\ last'.status \in {400, 403, 404, 409})
     => (cases' = cases /\ events' = events /\ documents' = documents
           /\ nextId' = nextId)]_vars

\* C26 witness: an updateCase with a valid payload was answered 403 on a
\* stored case that has an event and a document.
C26_Witness ==
  /\ last.op = "updateCase" /\ last.status = 403
  /\ last.req.status = "closed"
  /\ \E c \in cases :
       /\ c.id = last.id /\ c.status = "active"
       /\ \E e \in events : e.case = c.id
       /\ \E d \in documents : d.case = c.id


\* C27: an updateCase whose payload has no nextHearingDate, or has it as
\* null, creates no event and leaves every stored event unchanged.
C27_NoDateNoEventChange ==
  [][(last'.op = "updateCase"
        /\ last'.req.nextHearingDate \in {NoDate, NullDate})
     => events' = events]_vars

\* C27 witness: an updateCase with nextHearingDate null was answered 200 on
\* a case that has a scheduled hearing event; the case's date is now null
\* and the event still starts at 1.
C27_Witness ==
  /\ last.op = "updateCase" /\ last.status = 200
  /\ last.req.nextHearingDate = NullDate
  /\ \E c \in cases :
       /\ c.id = last.id /\ c.nextHearingDate = NullDate
       /\ \E e \in scheduledHearings(events, c.id) : e.start = 1

\* C28: an updateCase answered 200 that sets a hearing date creates a
\* hearing event of the case exactly when the case has no scheduled hearing
\* event, changes at most one stored event, a scheduled hearing event of
\* that case, and leaves the events of other cases unchanged.
C28_SyncTouchesOneScheduledHearing ==
  [][(last'.op = "updateCase" /\ last'.status = 200
        /\ last'.req.nextHearingDate \in Dates)
     => /\ (events' \ {e \in events' : \E f \in events : f.id = e.id} # {})
             <=> (scheduledHearings(events, last'.id) = {})
        /\ Cardinality(events \ events') <= 1
        /\ \A e \in events \ events' :
             e \in scheduledHearings(events, last'.id)
        /\ \A e \in events : e.case # last'.id => e \in events']_vars


\* C29: every id in a case's events[] is the id of a stored event of that
\* case and is listed once, and every stored event with a case is listed in
\* the events[] of that case.
C29_EventsListedExactly ==
  /\ \A c \in cases : \A i \in 1..Len(c.events) :
       /\ \E e \in events : e.id = c.events[i] /\ e.case = c.id
       /\ \A j \in 1..Len(c.events) : c.events[j] = c.events[i] => j = i
  /\ \A e \in events :
       e.case # NoCase =>
         \E c \in cases :
           c.id = e.case /\ \E i \in 1..Len(c.events) : c.events[i] = e.id

====
